---- MODULE Spec2Model ----
(***************************************************************************)
(* inject.py: the remote export-table resolver (find_remote_export), the   *)
(* injection sequence (inject_dll) and the entry point (main).             *)
(*                                                                         *)
(* kernel32 is the environment.  Every call into it has its outcome drawn  *)
(* from the outcomes its interface allows: a transfer (ReadProcessMemory,  *)
(* WriteProcessMemory) completes ("ok"), reports failure ("fail"), or      *)
(* reports success with a transferred count below the requested one        *)
(* ("short").  The remote image is a byte memory; fields are decoded from  *)
(* the bytes read, little-endian, at the offsets the code uses.            *)
(***************************************************************************)
EXTENDS Integers, Sequences, FiniteSets, TLC

(* ---------------- bounds of the model ---------------- *)
\* most named exports of a synthetic image
MaxNames == 2
\* length of the function table of a synthetic image
MaxFuncs == 2
\* most remote reads of one find_remote_export call that do not complete
MaxBadReads == 1

(* ---------------- constants of the program ---------------- *)
WAIT_OBJECT_0 == 0
DosHeaderSize == 64
PeHeaderSize == 256
ExportDirSize == 40
NameBufSize == 128
PeSignature == 17744
MagicPe32 == 267
MagicPe32Plus == 523
OffLfanew == 60
OffMagic == 24
OffExportRva32 == 96
OffExportRva64 == 112
OffNumFunctions == 20
OffNumNames == 24
OffFuncRvas == 28
OffNameRvas == 32
OffOrdinals == 36

(* ---------------- symbol names, as bytes ---------------- *)
\* "LoadLibraryA" (function_name.encode('ascii') of the one call inject_dll makes)
LoadLibraryA == <<76, 111, 97, 100, 76, 105, 98, 114, 97, 114, 121, 65>>
\* "Beep", a second export of the synthetic images
Beep == <<66, 101, 101, 112>>
\* "LoadLibrary", a proper prefix of an exported name, never exported itself
LoadLibrary == <<76, 111, 97, 100, 76, 105, 98, 114, 97, 114, 121>>
ExportedNames == {LoadLibraryA, Beep}
SymbolNames == {LoadLibraryA, Beep, LoadLibrary}

(* ---------------- the synthetic remote image ---------------- *)
\* An image is [sig, magic, rvaOff, export_rva, names, ords, nfuncs]:
\*   sig, magic     the PE signature and optional-header magic stored in it
\*   rvaOff         the optional-header offset at which export_rva is stored
\*   export_rva     the export directory RVA stored in the header
\*   names          the exported names, in name-table order
\*   ords           the ordinal table, parallel to names
\*   nfuncs         the length of the function table (NumberOfFunctions)
\* The layout below is fixed: headers, export directory, the three tables,
\* then the name strings, one slot each; every other byte of the image is 0.
LfanewRva == DosHeaderSize
ExportDirRva == LfanewRva + PeHeaderSize
NameTableRva == ExportDirRva + ExportDirSize
OrdTableRva == NameTableRva + 4 * (MaxNames + 1)
FuncTableRva == OrdTableRva + 2 * (MaxNames + 1)
StringsRva == FuncTableRva + 4 * (MaxFuncs + 1)
StringSlot == Len(LoadLibraryA) + 4
CodeRva == 16 * PeHeaderSize
\* RVA of the body of function j (0-based index into the function table)
FuncRva(j) == CodeRva + 16 * (j + 1)
\* RVA of the string of the k-th name (1-based)
NameRva(k) == StringsRva + StringSlot * (k - 1)

\* byte k (0 = least significant) of the little-endian encoding of v
LeByte(v, k) == IF k = 0 THEN v % 256
                ELSE IF k = 1 THEN (v \div 256) % 256
                ELSE IF k = 2 THEN (v \div 65536) % 256
                ELSE (v \div 16777216) % 256

\* the byte of the image at offset a from its base
ImageByte(im, a) ==
  LET n == Len(im.names) IN
  IF a = 0 THEN 77
  ELSE IF a = 1 THEN 90
  ELSE IF a >= OffLfanew /\ a < OffLfanew + 4 THEN LeByte(LfanewRva, a - OffLfanew)
  ELSE IF a >= LfanewRva /\ a < LfanewRva + 4 THEN LeByte(im.sig, a - LfanewRva)
  ELSE IF a >= LfanewRva + OffMagic /\ a < LfanewRva + OffMagic + 2
    THEN LeByte(im.magic, a - (LfanewRva + OffMagic))
  ELSE IF a >= LfanewRva + OffMagic + im.rvaOff /\ a < LfanewRva + OffMagic + im.rvaOff + 4
    THEN LeByte(im.export_rva, a - (LfanewRva + OffMagic + im.rvaOff))
  ELSE IF a >= ExportDirRva + OffNumFunctions /\ a < ExportDirRva + OffNumFunctions + 4
    THEN LeByte(im.nfuncs, a - (ExportDirRva + OffNumFunctions))
  ELSE IF a >= ExportDirRva + OffNumNames /\ a < ExportDirRva + OffNumNames + 4
    THEN LeByte(n, a - (ExportDirRva + OffNumNames))
  ELSE IF a >= ExportDirRva + OffFuncRvas /\ a < ExportDirRva + OffFuncRvas + 4
    THEN LeByte(FuncTableRva, a - (ExportDirRva + OffFuncRvas))
  ELSE IF a >= ExportDirRva + OffNameRvas /\ a < ExportDirRva + OffNameRvas + 4
    THEN LeByte(NameTableRva, a - (ExportDirRva + OffNameRvas))
  ELSE IF a >= ExportDirRva + OffOrdinals /\ a < ExportDirRva + OffOrdinals + 4
    THEN LeByte(OrdTableRva, a - (ExportDirRva + OffOrdinals))
  ELSE IF a >= NameTableRva /\ a < NameTableRva + 4 * n
    THEN LeByte(NameRva(((a - NameTableRva) \div 4) + 1), (a - NameTableRva) % 4)
  ELSE IF a >= OrdTableRva /\ a < OrdTableRva + 2 * n
    THEN LeByte(im.ords[((a - OrdTableRva) \div 2) + 1], (a - OrdTableRva) % 2)
  ELSE IF a >= FuncTableRva /\ a < FuncTableRva + 4 * im.nfuncs
    THEN LeByte(FuncRva((a - FuncTableRva) \div 4), (a - FuncTableRva) % 4)
  ELSE IF a >= StringsRva /\ a < StringsRva + StringSlot * n
    THEN LET k == ((a - StringsRva) \div StringSlot) + 1
             o == (a - StringsRva) % StringSlot
         IN IF o < Len(im.names[k]) THEN im.names[k][o + 1] ELSE 0
  ELSE 0

\* the images: every name table of at most MaxNames exported names (repeats
\* included) with every ordinal in 0..MaxFuncs (MaxFuncs itself lies outside
\* the function table), and four header variants over one fixed table
NameSeqs == UNION {[1..n -> ExportedNames] : n \in 0..MaxNames}
Image(s, m, o, e, ns, os) ==
  [sig |-> s, magic |-> m, rvaOff |-> o, export_rva |-> e, names |-> ns, ords |-> os,
   nfuncs |-> MaxFuncs]
TableImages ==
  UNION {{Image(PeSignature, MagicPe32, OffExportRva32, ExportDirRva, ns, os) :
            os \in [1..Len(ns) -> 0..MaxFuncs]} : ns \in NameSeqs}
HeaderImages ==
  {Image(PeSignature, MagicPe32Plus, OffExportRva64, ExportDirRva, <<Beep, LoadLibraryA>>, <<0, 1>>),
   Image(PeSignature + 1, MagicPe32, OffExportRva32, ExportDirRva, <<LoadLibraryA>>, <<0>>),
   Image(PeSignature, MagicPe32 + 1, OffExportRva32, ExportDirRva, <<LoadLibraryA>>, <<0>>),
   Image(PeSignature, MagicPe32, OffExportRva32, 0, <<LoadLibraryA>>, <<0>>)}
Images == TableImages \cup HeaderImages

\* base addresses at which the image may be loaded
ModuleBases == {65536}

(* ---------------- integers beyond 31 bits ---------------- *)
\* Python integers are unbounded and pointers are 32 or 64 bits wide.  An
\* address or handle is kept as two parts: Wide(h, l) is h * 2^31 + l with
\* 0 <= l < 2^31 (h = -1 for the negative values a c_int result can take).
\* Offsets inside the image (RVAs, sizes) are plain integers below 2^31.
Wide(h, l) == [hi |-> h, lo |-> l]
\* w + n for a small non-negative n that does not carry out of the low part
WidePlus(w, n) == Wide(w.hi, w.lo + n)
\* the low parts and the high parts of the bases at which a module is loaded:
\* below 2^31, and at 2^32 and above
ModuleBaseHighs == {0, 2}

\* the module a snapshot of the target finds as kernel32.dll: its base (high
\* part, low part) and its image
TargetModules ==
  {<<0, b, im>> : b \in ModuleBases, im \in Images}
    \cup {<<h, b, im>> : h \in ModuleBaseHighs, b \in ModuleBases, im \in HeaderImages}

(* ---------------- remote memory port ---------------- *)
ReadOutcomes == {"ok", "fail", "short"}
\* bytes transferred by a read of `size` bytes with outcome o
Got(size, o) == IF o = "ok" THEN size ELSE IF o = "short" THEN size \div 2 ELSE 0
\* the BOOL ReadProcessMemory returns
ReadRet(o) == o # "fail"
\* the local buffer after the call: (ctypes.c_byte * size)() is zero-filled and
\* the first `got` bytes are overwritten with the remote bytes at addr
ReadBuf(im, base, addr, size, got) ==
  [k \in 0..(size - 1) |-> IF k < got THEN ImageByte(im, (addr - base) + k) ELSE 0]

\* struct.unpack_from('<I', buf, off)[0] and ('<H', ...), for off within the buffer
UnpackI(buf, off) ==
  buf[off] + 256 * buf[off + 1] + 65536 * buf[off + 2] + 16777216 * buf[off + 3]
UnpackH(buf, off) == buf[off] + 256 * buf[off + 1]
\* unpack_from raises struct.error when the buffer ends before off + width
UnpackFits(size, off, width) == off + width <= size

\* bytes(name_buf).split(b'\x00')[0]: the bytes before the first zero byte
RECURSIVE UpToNul(_, _, _)
UpToNul(buf, k, size) ==
  IF k >= size \/ buf[k] = 0 THEN <<>> ELSE <<buf[k]>> \o UpToNul(buf, k + 1, size)

(* ---------------- state ---------------- *)
VARIABLES
  pc,          \* the statement the program is at
  caller,      \* who called find_remote_export: "direct" or "inject_dll"
  img,         \* the image loaded in the target at fre.module_base
  fre,         \* the arguments and locals of find_remote_export
  fre_ret,     \* what find_remote_export returned: [kind, val]
  reads,       \* the ReadProcessMemory calls of the current find_remote_export call
  inj,         \* the locals of inject_dll
  handles,     \* the kernel's view of the two handles: "none", "open", "closed"
  inj_ret,     \* what inject_dll returned: "pending", "True", "False", "raise"
  exit_status, \* the exit status of the interpreter: "running", 0, 1
  ops,         \* the calls into the environment so far with what each gave, in order
  scratch,     \* the bytes of the region allocated in the target
  remote_thread, \* the thread created in the target: [state, result, path]
  first_call   \* an earlier find_remote_export call with the same arguments: [done, ret, reads]

vars == <<pc, caller, img, fre, fre_ret, reads, inj, handles, inj_ret, exit_status, ops, scratch,
          remote_thread, first_call>>
injVars == <<inj, handles, inj_ret, exit_status, scratch, remote_thread>>

(* ---------------- find_remote_export ---------------- *)
EmptyBuf == [k \in {} |-> 0]
FreLocals(high, base, name) ==
  [module_base_hi |-> high, module_base |-> base, function_name |-> name, e_lfanew |-> 0, export_rva |-> 0,
   num_functions |-> 0, num_names |-> 0, func_rvas_rva |-> 0, name_rvas_rva |-> 0,
   ordinals_rva |-> 0, name_rvas_data |-> EmptyBuf, ordinals_data |-> EmptyBuf,
   func_rvas_data |-> EmptyBuf, i |-> 0]
\* what the call gave: nothing yet, None, the address Wide(hi, val), struct.error
Pending == [kind |-> "pending", hi |-> 0, val |-> 0]
None == [kind |-> "None", hi |-> 0, val |-> 0]
Addr(high, a) == [kind |-> "addr", hi |-> high, val |-> a]
Raise == [kind |-> "raise", hi |-> 0, val |-> 0]

\* one call into the environment and what it gave
Call(op, res) == [op |-> op, res |-> res]

BadReads == Cardinality({k \in 1..Len(reads) : reads[k].got < reads[k].size})
\* in a second call with the same arguments the environment gives each read
\* the outcome the read at its position had in the first call (ops holds the
\* reads of the first call from its start); a read beyond those of the first
\* call may have any outcome
Replayed(o) ==
  (first_call.done /\ Len(reads) < Len(first_call.reads)) => o = ops[Len(reads) + 1].res
\* the outcomes the environment may give the next read of `size` bytes
MayRead(size, o) ==
  /\ o = "ok" \/ (BadReads < MaxBadReads /\ (o = "fail" \/ size >= 2))
  /\ Replayed(o)
ReadRec(addr, size, o) == [addr |-> addr, size |-> size, got |-> Got(size, o), ret |-> ReadRet(o)]

\* one ReadProcessMemory call is logged
Logged(addr, size, o) ==
  /\ reads' = Append(reads, ReadRec(addr, size, o))
  /\ ops' = Append(ops, Call("ReadProcessMemory", o))

\* find_remote_export returns r (or raises) to its caller
FreReturn(r) ==
  /\ fre_ret' = r
  /\ pc' = IF caller = "direct" THEN "fre_done" ELSE "inj_export_returned"

\* lines 220-228: the DOS header read, checked; e_lfanew
FreReadDosHeader ==
  /\ pc = "fre_dos"
  /\ \E o \in ReadOutcomes :
       /\ MayRead(DosHeaderSize, o)
       /\ Logged(fre.module_base, DosHeaderSize, o)
       /\ LET dos_header == ReadBuf(img, fre.module_base, fre.module_base, DosHeaderSize,
                                    Got(DosHeaderSize, o))
          IN IF ~ReadRet(o)
             THEN FreReturn(None) /\ UNCHANGED fre
             ELSE /\ fre' = [fre EXCEPT !.e_lfanew = UnpackI(dos_header, OffLfanew)]
                  /\ pc' = "fre_pe"
                  /\ UNCHANGED fre_ret
  /\ UNCHANGED <<caller, img, injVars, first_call>>

\* lines 244-253: the export directory RVA by optional-header magic; -1 for
\* an unknown magic
ExportRvaOf(pe_data) ==
  LET magic == UnpackH(pe_data, OffMagic) IN
  IF magic = MagicPe32 THEN UnpackI(pe_data, OffMagic + OffExportRva32)
  ELSE IF magic = MagicPe32Plus THEN UnpackI(pe_data, OffMagic + OffExportRva64)
  ELSE 0 - 1

\* a variant of SignatureOk that takes any signature
SignatureAny(pe_sig) == TRUE
\* line 241: pe_sig != 0x4550 returns None
SignatureOk(pe_sig) == pe_sig = PeSignature
\* a variant of NoExports that goes on with a zero RVA
NoExportsNever(export_rva) == FALSE
\* line 255: export_rva == 0 returns None
NoExports(export_rva) == export_rva = 0

\* lines 230-256: the PE header read, checked; signature, magic, export RVA
FreReadPeHeader ==
  /\ pc = "fre_pe"
  /\ \E o \in ReadOutcomes :
       /\ MayRead(PeHeaderSize, o)
       /\ Logged(fre.module_base + fre.e_lfanew, PeHeaderSize, o)
       /\ LET pe_data == ReadBuf(img, fre.module_base, fre.module_base + fre.e_lfanew,
                                 PeHeaderSize, Got(PeHeaderSize, o))
              export_rva == ExportRvaOf(pe_data)
          IN IF ~ReadRet(o) THEN FreReturn(None) /\ UNCHANGED fre
             ELSE IF ~SignatureOk(UnpackI(pe_data, 0)) THEN FreReturn(None) /\ UNCHANGED fre
             ELSE IF export_rva < 0 THEN FreReturn(None) /\ UNCHANGED fre
             ELSE IF NoExports(export_rva)
               THEN FreReturn(None) /\ fre' = [fre EXCEPT !.export_rva = export_rva]
             ELSE /\ fre' = [fre EXCEPT !.export_rva = export_rva]
                  /\ pc' = "fre_dir"
                  /\ UNCHANGED fre_ret
  /\ UNCHANGED <<caller, img, injVars, first_call>>

\* lines 258-270: the export directory read, checked; its five fields
FreReadExportDir ==
  /\ pc = "fre_dir"
  /\ \E o \in ReadOutcomes :
       /\ MayRead(ExportDirSize, o)
       /\ Logged(fre.module_base + fre.export_rva, ExportDirSize, o)
       /\ LET ed == ReadBuf(img, fre.module_base, fre.module_base + fre.export_rva,
                            ExportDirSize, Got(ExportDirSize, o))
          IN IF ~ReadRet(o) THEN FreReturn(None) /\ UNCHANGED fre
             ELSE /\ fre' = [fre EXCEPT !.num_functions = UnpackI(ed, OffNumFunctions),
                                        !.num_names = UnpackI(ed, OffNumNames),
                                        !.func_rvas_rva = UnpackI(ed, OffFuncRvas),
                                        !.name_rvas_rva = UnpackI(ed, OffNameRvas),
                                        !.ordinals_rva = UnpackI(ed, OffOrdinals)]
                  /\ pc' = "fre_names"
                  /\ UNCHANGED fre_ret
  /\ UNCHANGED <<caller, img, injVars, first_call>>

\* lines 273-278: the name RVA array read; the BOOL it returns is dropped
FreReadNameRvas ==
  /\ pc = "fre_names"
  /\ \E o \in ReadOutcomes :
       /\ MayRead(fre.num_names * 4, o)
       /\ Logged(fre.module_base + fre.name_rvas_rva, fre.num_names * 4, o)
       /\ fre' = [fre EXCEPT !.name_rvas_data =
                    ReadBuf(img, fre.module_base, fre.module_base + fre.name_rvas_rva,
                            fre.num_names * 4, Got(fre.num_names * 4, o))]
  /\ pc' = "fre_ords"
  /\ UNCHANGED <<caller, img, fre_ret, injVars, first_call>>

\* lines 280-285: the ordinal array read; the BOOL it returns is dropped
FreReadOrdinals ==
  /\ pc = "fre_ords"
  /\ \E o \in ReadOutcomes :
       /\ MayRead(fre.num_names * 2, o)
       /\ Logged(fre.module_base + fre.ordinals_rva, fre.num_names * 2, o)
       /\ fre' = [fre EXCEPT !.ordinals_data =
                    ReadBuf(img, fre.module_base, fre.module_base + fre.ordinals_rva,
                            fre.num_names * 2, Got(fre.num_names * 2, o))]
  /\ pc' = "fre_funcs"
  /\ UNCHANGED <<caller, img, fre_ret, injVars, first_call>>

\* lines 287-299: the function RVA array read; the BOOL it returns is dropped;
\* range(num_names) is empty when num_names = 0 and line 317 returns None
FreReadFuncRvas ==
  /\ pc = "fre_funcs"
  /\ \E o \in ReadOutcomes :
       /\ MayRead(fre.num_functions * 4, o)
       /\ Logged(fre.module_base + fre.func_rvas_rva, fre.num_functions * 4, o)
       /\ fre' = [fre EXCEPT !.func_rvas_data =
                    ReadBuf(img, fre.module_base, fre.module_base + fre.func_rvas_rva,
                            fre.num_functions * 4, Got(fre.num_functions * 4, o))]
  /\ IF fre.num_names = 0 THEN FreReturn(None)
     ELSE pc' = "fre_scan" /\ UNCHANGED fre_ret
  /\ UNCHANGED <<caller, img, injVars, first_call>>

\* line 311: the comparison of the name read with the name sought
NameMatches(name, func_name_bytes) == name = func_name_bytes

\* a variant of Lookup that indexes the function table by the name index,
\* without the ordinal indirection
LookupByNameIndex(f, i) ==
  IF ~UnpackFits(f.num_functions * 4, i * 4, 4) THEN Raise
  ELSE Addr(f.module_base_hi, f.module_base + UnpackI(f.func_rvas_data, i * 4))
\* lines 312-315: the address of the export at name index i, or struct.error
Lookup(f, i) ==
  LET ordinal == UnpackH(f.ordinals_data, i * 2) IN
  IF ~UnpackFits(f.num_functions * 4, ordinal * 4, 4) THEN Raise
  ELSE Addr(f.module_base_hi, f.module_base + UnpackI(f.func_rvas_data, ordinal * 4))

\* a variant of ScanIndex that walks the name table from its end
ScanIndexReversed(i, num_names) == num_names - 1 - i
\* line 299: range(num_names): the name index of the i-th iteration
ScanIndex(i, num_names) == i

\* lines 299-317: one iteration of the name scan: the name read (the BOOL it
\* returns is dropped), the comparison, the lookup on a match, the loop exit
FreScanName ==
  /\ pc = "fre_scan"
  /\ fre.i < fre.num_names
  /\ \E o \in ReadOutcomes :
       /\ MayRead(NameBufSize, o)
       /\ LET idx == ScanIndex(fre.i, fre.num_names)
              name_rva == UnpackI(fre.name_rvas_data, idx * 4)
              name_buf == ReadBuf(img, fre.module_base, fre.module_base + name_rva,
                                  NameBufSize, Got(NameBufSize, o))
              name == UpToNul(name_buf, 0, NameBufSize)
          IN /\ Logged(fre.module_base + name_rva, NameBufSize, o)
             /\ IF NameMatches(name, fre.function_name)
                THEN FreReturn(Lookup(fre, idx)) /\ UNCHANGED fre
                ELSE /\ fre' = [fre EXCEPT !.i = fre.i + 1]
                     /\ IF fre.i + 1 = fre.num_names THEN FreReturn(None)
                        ELSE pc' = "fre_scan" /\ UNCHANGED fre_ret
  /\ UNCHANGED <<caller, img, injVars, first_call>>

FreNext ==
  \/ FreReadDosHeader
  \/ FreReadPeHeader
  \/ FreReadExportDir
  \/ FreReadNameRvas
  \/ FreReadOrdinals
  \/ FreReadFuncRvas
  \/ FreScanName

(* ---------------- find_remote_export called on its own ---------------- *)
\* local_entry is the address of LoadLibraryA in the caller's own kernel32
\* (a fact of the caller's process) and thread_start the lpStartAddress that
\* CreateRemoteThread received; addresses are Wide
IdleInj ==
  [target_32bit |-> FALSE, self_64bit |-> FALSE, cross_arch |-> FALSE, remote_memory |-> 0,
   bytes_written |-> 0, load_library_addr |-> Wide(0, 0), wait_result |-> 0, exit_code |-> 0,
   local_entry |-> Wide(0, 0), thread_start |-> Wide(0, 0)]
NoThread == [state |-> "none", result |-> 0, path |-> <<>>]
NoCall == [done |-> FALSE, ret |-> Pending, reads |-> <<>>]

InitExport ==
  /\ pc = "fre_dos"
  /\ caller = "direct"
  /\ \E m \in TargetModules, n \in SymbolNames : img = m[3] /\ fre = FreLocals(m[1], m[2], n)
  /\ fre_ret = Pending
  /\ reads = <<>>
  /\ inj = IdleInj
  /\ handles = [process |-> "open", thread |-> "none"]
  /\ inj_ret = "pending"
  /\ exit_status = "running"
  /\ ops = <<>>
  /\ scratch = <<>>
  /\ remote_thread = NoThread
  /\ first_call = NoCall

SpecExport == InitExport /\ [][FreNext]_vars

(* ---------------- find_remote_export called twice ---------------- *)
\* a variant of FreshLocals in which the locals of the earlier call survive
StaleLocals(f) == f
\* lines 195-218: the call starts from its three arguments; every local is
\* assigned anew before it is used and the function reads no global state
FreshLocals(f) == FreLocals(f.module_base_hi, f.module_base, f.function_name)

\* the caller notes what the first call gave and calls find_remote_export
\* again with the same module base and name, over the same image and with
\* the same read outcomes (Replayed)
FreCallAgain ==
  /\ pc = "fre_done"
  /\ ~first_call.done
  /\ first_call' = [done |-> TRUE, ret |-> fre_ret, reads |-> reads]
  /\ fre' = FreshLocals(fre)
  /\ fre_ret' = Pending
  /\ reads' = <<>>
  /\ pc' = "fre_dos"
  /\ UNCHANGED <<caller, img, injVars, ops>>

\* the modules the two calls are made over: those of TargetModules over
\* HeaderImages, and those with one ordinal table per name table, descending
\* from an ordinal outside the function table
TwiceModules ==
  {m \in TargetModules :
     \/ m[3] \in HeaderImages
     \/ \A k \in 1..Len(m[3].names) : m[3].ords[k] = m[3].nfuncs + 1 - k}

InitTwice ==
  /\ pc = "fre_dos"
  /\ caller = "direct"
  /\ \E m \in TwiceModules, n \in SymbolNames : img = m[3] /\ fre = FreLocals(m[1], m[2], n)
  /\ fre_ret = Pending
  /\ reads = <<>>
  /\ inj = IdleInj
  /\ handles = [process |-> "open", thread |-> "none"]
  /\ inj_ret = "pending"
  /\ exit_status = "running"
  /\ ops = <<>>
  /\ scratch = <<>>
  /\ remote_thread = NoThread
  /\ first_call = NoCall

NextTwice == FreNext \/ FreCallAgain
SpecTwice == InitTwice /\ [][NextTwice]_vars

(* ---------------- inject_dll ---------------- *)
\* dll_bytes: the absolute path of the payload, UTF-8, null-terminated
\* ("C:\a.dll" and the terminator)
DllBytes == <<67, 58, 92, 97, 46, 100, 108, 108, 0>>
dll_size == Len(DllBytes)
\* the address VirtualAllocEx returns in the target
ScratchAddr == 16 * CodeRva
\* the outcomes of a kernel32 call made by inject_dll: it returns a value the
\* code takes as success ("ok") or as failure ("fail"), or an exception is
\* raised inside the call ("raise": OSError from the foreign call)
CallOutcomes == {"ok", "fail", "raise"}
WriteOutcomes == {"ok", "fail", "short", "raise"}
\* what WaitForSingleObject returns: WAIT_OBJECT_0 or WAIT_TIMEOUT
WaitResults == {WAIT_OBJECT_0, 258}
\* what LoadLibraryA returns in the target: NULL or a module handle
ExitCodes == {0, 268435456}
\* where kernel32.dll is loaded in the caller's own process: below 2^31 in a
\* 32-bit interpreter (0x75000000), above 2^32 in a 64-bit one (0x7FFB00010000)
LocalKernel32(self_64bit) ==
  IF self_64bit THEN {Wide(65526, 65536)} ELSE {Wide(0, 1962934272)}
NoImage == Image(0, 0, OffExportRva32, 0, <<>>, <<>>)

\* a foreign function without restype returns a C int: the low 32 bits of
\* the result, signed (lines 404-406: GetModuleHandleW, GetProcAddress)
ToCInt(w) == IF w.hi % 2 = 0 THEN Wide(0, w.lo) ELSE Wide(0 - 1, w.lo)
\* a Python integer that becomes a pointer-sized argument: the value modulo
\* 2^32 in a 32-bit interpreter; in a 64-bit one the 64-bit pattern, written
\* as the signed value it stands for
ToPointer(w, self_64bit) == IF self_64bit THEN w ELSE Wide(w.hi % 2, w.lo)
\* lines 404-406: GetProcAddress(GetModuleHandleW("kernel32.dll"), b"LoadLibraryA")
\* where kernel32 is at h_module: the handle comes back as a C int and goes in
\* as one; GetProcAddress gives NULL for a handle that is no module
LocalLookup(self_64bit, h_module) ==
  IF ToPointer(ToCInt(h_module), self_64bit) = h_module
  THEN ToCInt(WidePlus(h_module, FuncRva(0)))
  ELSE Wide(0, 0)

\* line 414: load_library_addr > 0xFFFFFFFF
ExceedsDword(a) == a.hi >= 2
\* line 433: wait_result == WAIT_OBJECT_0
WaitCompleted(wait_result) == wait_result = WAIT_OBJECT_0
\* a variant of ModuleLoaded that takes every exit code for a module handle
ModuleLoadedAny(exit_code) == TRUE
\* line 437: exit_code.value != 0
ModuleLoaded(exit_code) == exit_code # 0

\* a variant of Finally that closes both handles, the thread handle again
\* when the body has closed it
FinallyClosesBoth(r, issued, hs, region) ==
  /\ inj_ret' = r
  /\ ops' = ops \o issued \o
              (IF hs.thread = "none" THEN <<>> ELSE <<Call("CloseHandle(h_thread)", "ok")>>)
              \o <<Call("CloseHandle(h_process)", "ok")>>
  /\ handles' = [hs EXCEPT !.process = "closed"]
  /\ scratch' = region
  /\ pc' = "main_ret"
\* lines 448-450: the finally clause closes the process handle, then the
\* return value (or the exception) goes to main; `issued` are the calls of
\* the step that ends the attempt, hs the handles and region the scratch
\* region after them
Finally(r, issued, hs, region) ==
  /\ inj_ret' = r
  /\ ops' = ops \o issued \o <<Call("CloseHandle(h_process)", "ok")>>
  /\ handles' = [hs EXCEPT !.process = "closed"]
  /\ scratch' = region
  /\ pc' = "main_ret"

freVars == <<caller, img, fre, fre_ret, reads, first_call>>
Found(b) == IF b THEN "ok" ELSE "fail"

\* a variant of DllFound that goes on without the file
DllFoundAlways(exists) == TRUE
\* line 342: not os.path.exists(dll_path) returns False
DllFound(exists) == exists

\* lines 341-348: the payload file must exist
InjCheckDll ==
  /\ pc = "inj_check"
  /\ \E exists \in BOOLEAN :
       /\ ops' = Append(ops, Call("os.path.exists", Found(exists)))
       /\ IF DllFound(exists) THEN pc' = "inj_open" /\ UNCHANGED inj_ret
          ELSE pc' = "main_ret" /\ inj_ret' = "False"
  /\ UNCHANGED <<freVars, inj, handles, exit_status, scratch, remote_thread>>

\* lines 350-356: OpenProcess; NULL returns False
InjOpenProcess ==
  /\ pc = "inj_open"
  /\ \E opened \in BOOLEAN :
       /\ ops' = Append(ops, Call("OpenProcess", Found(opened)))
       /\ IF opened
          THEN /\ handles' = [handles EXCEPT !.process = "open"]
               /\ pc' = "inj_probe"
               /\ UNCHANGED inj_ret
          ELSE /\ pc' = "main_ret"
               /\ inj_ret' = "False"
               /\ UNCHANGED handles
  /\ UNCHANGED <<freVars, inj, exit_status, scratch, remote_thread>>

\* a variant of CrossArch that looks at the target alone
CrossArchTargetOnly(self_64bit, target_32bit) == target_32bit
\* line 361: cross_arch = self_64bit and target_32bit
CrossArch(self_64bit, target_32bit) == self_64bit /\ target_32bit

\* lines 358-366: is_target_32bit, is_self_64bit, cross_arch and the prints,
\* all before the try statement: an exception here leaves inject_dll at once
InjProbe ==
  /\ pc = "inj_probe"
  /\ \E o \in {"ok", "raise"}, t \in BOOLEAN, s \in BOOLEAN :
       /\ ops' = Append(ops, Call("IsWow64Process", o))
       /\ IF o = "raise"
          THEN /\ inj_ret' = "raise"
               /\ pc' = "main_ret"
               /\ UNCHANGED inj
          ELSE /\ inj' = [inj EXCEPT !.target_32bit = t, !.self_64bit = s,
                                     !.cross_arch = CrossArch(s, t)]
               /\ pc' = "inj_alloc"
               /\ UNCHANGED inj_ret
  /\ UNCHANGED <<freVars, handles, exit_status, scratch, remote_thread>>

\* line 374: not remote_memory returns False
AllocFailed(remote_memory) == remote_memory = 0

\* lines 369-377: VirtualAllocEx of dll_size bytes; NULL returns False
InjAlloc ==
  /\ pc = "inj_alloc"
  /\ \E o \in CallOutcomes :
       LET remote_memory == IF o = "ok" THEN ScratchAddr ELSE 0
           region == IF o = "ok" THEN [k \in 1..dll_size |-> 0] ELSE scratch
       IN IF o = "raise"
          THEN Finally("raise", <<Call("VirtualAllocEx", o)>>, handles, scratch) /\ UNCHANGED inj
          ELSE IF AllocFailed(remote_memory)
          THEN Finally("False", <<Call("VirtualAllocEx", o)>>, handles, scratch) /\ UNCHANGED inj
          ELSE /\ inj' = [inj EXCEPT !.remote_memory = remote_memory]
               /\ scratch' = region
               /\ ops' = Append(ops, Call("VirtualAllocEx", o))
               /\ pc' = "inj_write"
               /\ UNCHANGED <<inj_ret, handles>>
  /\ UNCHANGED <<freVars, exit_status, remote_thread>>

\* lines 381-384: the test made on WriteProcessMemory: its BOOL alone
WriteAccepted(ret, written, size) == ret

\* lines 379-387: WriteProcessMemory of dll_bytes; a write to a region that
\* was not allocated can only fail
InjWrite ==
  /\ pc = "inj_write"
  /\ \E o \in (IF inj.remote_memory = 0 THEN {"fail"} ELSE WriteOutcomes) :
       LET written == IF o = "ok" THEN dll_size ELSE IF o = "short" THEN dll_size \div 2 ELSE 0
           ret == o \in {"ok", "short"}
           region == IF written = 0 THEN scratch
                     ELSE [k \in 1..dll_size |-> IF k <= written THEN DllBytes[k] ELSE scratch[k]]
       IN IF o = "raise"
          THEN Finally("raise", <<Call("WriteProcessMemory", o)>>, handles, scratch) /\ UNCHANGED inj
          ELSE /\ inj' = [inj EXCEPT !.bytes_written = written]
               /\ IF WriteAccepted(ret, written, dll_size)
                  THEN /\ ops' = Append(ops, Call("WriteProcessMemory", o))
                       /\ scratch' = region
                       /\ pc' = IF inj.cross_arch THEN "inj_module" ELSE "inj_local"
                       /\ UNCHANGED <<inj_ret, handles>>
                  ELSE Finally("False", <<Call("WriteProcessMemory", o)>>, handles, region)
  /\ UNCHANGED <<freVars, exit_status, remote_thread>>

\* lines 390-398 (and 154-192): cross_arch: find_remote_module_base, None
\* returns False; else find_remote_export is entered
InjFindModule ==
  /\ pc = "inj_module"
  /\ \E found \in BOOLEAN :
       IF found
       THEN /\ \E m \in TargetModules :
                 /\ img' = m[3]
                 /\ fre' = FreLocals(m[1], m[2], LoadLibraryA)
            /\ reads' = <<>>
            /\ fre_ret' = Pending
            /\ caller' = "inject_dll"
            /\ ops' = Append(ops, Call("CreateToolhelp32Snapshot", "ok"))
            /\ pc' = "fre_dos"
            /\ UNCHANGED <<inj_ret, handles, scratch>>
       ELSE /\ Finally("False", <<Call("CreateToolhelp32Snapshot", "fail")>>, handles, scratch)
            /\ UNCHANGED <<img, fre, reads, fre_ret, caller>>
  /\ UNCHANGED <<inj, exit_status, remote_thread, first_call>>

\* a variant of GuardRejects that lets every address through
GuardNever(target_32bit, addr) == FALSE
\* lines 411-416: the range guard on the resolved address
GuardRejects(target_32bit, addr) == target_32bit /\ ExceedsDword(addr)

\* lines 398-401 and 411-416: back from find_remote_export: None returns
\* False, struct.error propagates, an address goes through the range guard
InjExportReturned ==
  /\ pc = "inj_export_returned"
  /\ LET addr == Wide(fre_ret.hi, fre_ret.val) IN
     IF fre_ret.kind = "raise" THEN Finally("raise", <<>>, handles, scratch) /\ UNCHANGED inj
     ELSE IF fre_ret.kind = "None" THEN Finally("False", <<>>, handles, scratch) /\ UNCHANGED inj
     ELSE /\ inj' = [inj EXCEPT !.load_library_addr = addr]
          /\ IF GuardRejects(inj.target_32bit, addr)
             THEN Finally("False", <<>>, handles, scratch)
             ELSE pc' = "inj_create" /\ UNCHANGED <<inj_ret, handles, ops, scratch>>
  /\ UNCHANGED <<freVars, exit_status, remote_thread>>

\* lines 402-416: same architecture: the local lookup, 0 returns False; the
\* range guard
InjResolveLocal ==
  /\ pc = "inj_local"
  /\ \E h_module \in LocalKernel32(inj.self_64bit) :
       LET addr == LocalLookup(inj.self_64bit, h_module)
           issued == <<Call("GetModuleHandleW", "ok"),
                       Call("GetProcAddress", Found(addr # Wide(0, 0)))>>
       IN /\ inj' = [inj EXCEPT !.load_library_addr = addr,
                                !.local_entry = WidePlus(h_module, FuncRva(0))]
          /\ IF addr = Wide(0, 0) \/ GuardRejects(inj.target_32bit, addr)
             THEN Finally("False", issued, handles, scratch)
             ELSE /\ ops' = ops \o issued
                  /\ pc' = "inj_create"
                  /\ UNCHANGED <<inj_ret, handles, scratch>>
  /\ UNCHANGED <<freVars, exit_status, remote_thread>>

\* lines 418-428: CreateRemoteThread at load_library_addr (an LPVOID
\* argument, kept in thread_start) with remote_memory as its parameter; NULL
\* returns False
InjCreateThread ==
  /\ pc = "inj_create"
  /\ inj' = [inj EXCEPT !.thread_start = ToPointer(inj.load_library_addr, inj.self_64bit)]
  /\ \E o \in CallOutcomes :
       IF o = "ok"
       THEN /\ handles' = [handles EXCEPT !.thread = "open"]
            /\ remote_thread' = [state |-> "running", result |-> 0, path |-> <<>>]
            /\ ops' = Append(ops, Call("CreateRemoteThread", o))
            /\ pc' = "inj_wait"
            /\ UNCHANGED <<inj_ret, scratch>>
       ELSE /\ Finally(IF o = "fail" THEN "False" ELSE "raise", <<Call("CreateRemoteThread", o)>>,
                       handles, scratch)
            /\ UNCHANGED remote_thread
  /\ UNCHANGED <<freVars, exit_status>>

\* the thread in the target runs the entry point on the scratch region, at
\* any moment after its creation, whatever the caller is doing: it reads the
\* path and ends with the module handle or NULL as its exit code
RemoteThreadRuns ==
  /\ remote_thread.state = "running"
  /\ \E c \in (IF scratch = DllBytes THEN ExitCodes ELSE {0}) :
       remote_thread' = [state |-> "finished", result |-> c, path |-> scratch]
  /\ UNCHANGED <<pc, freVars, inj, handles, inj_ret, exit_status, ops, scratch>>

\* lines 430-433 and 442-446: WaitForSingleObject(h_thread, 10000) gives
\* WAIT_OBJECT_0 when the thread has ended; when it has not: the warning,
\* CloseHandle(h_thread), return True
InjWait ==
  /\ pc = "inj_wait"
  /\ \E o \in {"ok", "raise"}, w \in WaitResults :
       /\ (w = WAIT_OBJECT_0) <=> (remote_thread.state = "finished")
       /\ IF o = "raise"
          THEN /\ Finally("raise", <<Call("WaitForSingleObject", o)>>, handles, scratch)
               /\ UNCHANGED inj
          ELSE /\ inj' = [inj EXCEPT !.wait_result = w]
               /\ IF WaitCompleted(w)
                  THEN /\ ops' = Append(ops, Call("WaitForSingleObject", "ok"))
                       /\ pc' = "inj_exit_code"
                       /\ UNCHANGED <<inj_ret, handles, scratch>>
                  ELSE Finally("True", <<Call("WaitForSingleObject", "timeout"),
                                         Call("CloseHandle(h_thread)", "ok")>>,
                               [handles EXCEPT !.thread = "closed"], scratch)
  /\ UNCHANGED <<freVars, exit_status, remote_thread>>

\* lines 434-441 and 445-446: GetExitCodeThread; a non-zero exit code closes
\* the thread handle and returns True, zero returns False at line 441
InjExitCode ==
  /\ pc = "inj_exit_code"
  /\ \E o \in {"ok", "raise"} :
       LET c == remote_thread.result IN
       IF o = "raise"
       THEN Finally("raise", <<Call("GetExitCodeThread", o)>>, handles, scratch) /\ UNCHANGED inj
       ELSE /\ inj' = [inj EXCEPT !.exit_code = c]
            /\ IF ModuleLoaded(c)
               THEN Finally("True", <<Call("GetExitCodeThread", o),
                                      Call("CloseHandle(h_thread)", "ok")>>,
                            [handles EXCEPT !.thread = "closed"], scratch)
               ELSE Finally("False", <<Call("GetExitCodeThread", o)>>, handles, scratch)
  /\ UNCHANGED <<freVars, exit_status, remote_thread>>

(* ---------------- main ---------------- *)
\* lines 481-486: the payload file must exist, else sys.exit(1)
MainCheckDll ==
  /\ pc = "main"
  /\ \E exists \in BOOLEAN :
       /\ ops' = Append(ops, Call("os.path.exists", Found(exists)))
       /\ IF exists THEN pc' = "main_find" /\ UNCHANGED exit_status
          ELSE pc' = "exited" /\ exit_status' = 1
  /\ UNCHANGED <<freVars, inj, handles, inj_ret, scratch, remote_thread>>

\* lines 488-494: find_process_by_name; None is sys.exit(1)
MainFindProcess ==
  /\ pc = "main_find"
  /\ \E found \in BOOLEAN :
       /\ ops' = Append(ops, Call("find_process_by_name", Found(found)))
       /\ IF found THEN pc' = "inj_check" /\ UNCHANGED exit_status
          ELSE pc' = "exited" /\ exit_status' = 1
  /\ UNCHANGED <<freVars, inj, handles, inj_ret, scratch, remote_thread>>

\* a variant of ExitStatusOf without the sys.exit(1) of line 501
ExitStatusZero(r) == 0
\* lines 496-501: the exit status by what inject_dll returned; an exception
\* that leaves main ends the interpreter with status 1
ExitStatusOf(r) == IF r = "True" THEN 0 ELSE 1

MainReturn ==
  /\ pc = "main_ret"
  /\ exit_status' = ExitStatusOf(inj_ret)
  /\ pc' = "exited"
  /\ UNCHANGED <<freVars, inj, handles, inj_ret, ops, scratch, remote_thread>>

Init ==
  /\ pc = "main"
  /\ caller = "inject_dll"
  /\ img = NoImage
  /\ fre = FreLocals(0, 0, LoadLibraryA)
  /\ fre_ret = Pending
  /\ reads = <<>>
  /\ inj = IdleInj
  /\ handles = [process |-> "none", thread |-> "none"]
  /\ inj_ret = "pending"
  /\ exit_status = "running"
  /\ ops = <<>>
  /\ scratch = <<>>
  /\ remote_thread = NoThread
  /\ first_call = NoCall

Next ==
  \/ MainCheckDll
  \/ MainFindProcess
  \/ InjCheckDll
  \/ InjOpenProcess
  \/ InjProbe
  \/ InjAlloc
  \/ InjWrite
  \/ InjFindModule
  \/ FreReadDosHeader
  \/ FreReadPeHeader
  \/ FreReadExportDir
  \/ FreReadNameRvas
  \/ FreReadOrdinals
  \/ FreReadFuncRvas
  \/ FreScanName
  \/ InjExportReturned
  \/ InjResolveLocal
  \/ InjCreateThread
  \/ RemoteThreadRuns
  \/ InjWait
  \/ InjExitCode
  \/ MainReturn

Spec == Init /\ [][Next]_vars

(* ---------------- properties ---------------- *)
\* the kernel32 call `op` has been issued
Has(op) == \E k \in 1..Len(ops) : ops[k].op = op
\* the position of the first call `op` in ops (0 when there is none)
FirstOp(op) == IF Has(op) THEN CHOOSE k \in 1..Len(ops) : ops[k].op = op /\ \A j \in 1..(k - 1) : ops[j].op # op
               ELSE 0
\* im has a valid header, a non-zero export directory RVA and every ordinal
\* inside the function table
WellFormed(im) ==
  /\ im.sig = PeSignature
  /\ \/ im.magic = MagicPe32 /\ im.rvaOff = OffExportRva32
     \/ im.magic = MagicPe32Plus /\ im.rvaOff = OffExportRva64
  /\ im.export_rva # 0
  /\ \A k \in 1..Len(im.names) : im.ords[k] < im.nfuncs
\* every read of the call so far transferred all the bytes asked for
AllReadsOk == \A k \in 1..Len(reads) : reads[k].ret /\ reads[k].got = reads[k].size
\* the name at index i (1-based) occurs at no lower index
LowestIndex(im, i) == \A j \in 1..(i - 1) : im.names[j] # im.names[i]

\* C1: once OpenProcess has succeeded, the process handle is closed by the
\* time inject_dll has returned or let an exception out, whichever step ended
\* the attempt.
C1_ProcessHandleClosed ==
  (inj_ret # "pending" /\ handles.process # "none") => handles.process = "closed"

\* C2: once CreateRemoteThread has succeeded, the thread handle is closed by
\* the time inject_dll has returned, whatever the wait gave.
C2_ThreadHandleClosed ==
  (inj_ret \in {"True", "False"} /\ handles.thread # "none") => handles.thread = "closed"

\* C3: when the wait did not report completion, inject_dll does not report
\* success and main exits with status 1.
C3_TimeoutIsNotSuccess ==
  (Has("WaitForSingleObject") /\ inj.wait_result # WAIT_OBJECT_0 /\ inj_ret # "raise") =>
     /\ inj_ret # "True"
     /\ pc = "exited" => exit_status = 1

\* C4: after a completed wait inject_dll returns False when the exit code
\* read is zero and True when it is not; GetExitCodeThread is issued only
\* after a wait that reported completion.
C4_ResultFollowsExitCode ==
  /\ (inj_ret \in {"True", "False"} /\ Has("GetExitCodeThread")) =>
        (inj_ret = "True" <=> inj.exit_code # 0)
  /\ (inj_ret \in {"True", "False"} /\ Has("WaitForSingleObject")
        /\ inj.wait_result = WAIT_OBJECT_0) => Has("GetExitCodeThread")
  /\ Has("GetExitCodeThread") =>
        /\ inj.wait_result = WAIT_OBJECT_0
        /\ FirstOp("WaitForSingleObject") > 0
        /\ FirstOp("WaitForSingleObject") < FirstOp("GetExitCodeThread")
\* C4, its case: a completed wait, a zero exit code, False returned
C4_Witness ==
  /\ inj_ret = "False"
  /\ Has("GetExitCodeThread")
  /\ inj.exit_code = 0

C6_FailedReadGivesNone ==
  (fre_ret.kind \in {"None", "addr"} /\ \E k \in 1..Len(reads) : ~reads[k].ret) =>
     fre_ret = None

\* C7: a read that transferred fewer bytes than asked for is the last read
\* of the call.
C7_ShortReadIsLast ==
  \A k \in 1..(Len(reads) - 1) : ~(reads[k].ret /\ reads[k].got < reads[k].size)

\* C8: when WriteProcessMemory returned failure or wrote fewer than dll_size
\* bytes, inject_dll has returned False without resolving an address and
\* without creating a thread.
C8_ShortWriteAborts ==
  (Has("WriteProcessMemory") /\ inj.bytes_written < dll_size /\ inj_ret # "raise") =>
     /\ inj_ret = "False"
     /\ ~Has("CreateToolhelp32Snapshot")
     /\ ~Has("GetProcAddress")
     /\ ~Has("CreateRemoteThread")

\* C9: find_remote_export never ends by raising, whatever the image holds.
C9_NeverRaises == fre_ret.kind # "raise"

\* C10: main exits with status 0 exactly when inject_dll returned True, and
\* with status 1 otherwise: payload missing, process not found (inject_dll
\* never entered), inject_dll returned False.
C10_ExitStatus ==
  pc = "exited" =>
     /\ exit_status = 0 <=> inj_ret = "True"
     /\ inj_ret \in {"pending", "False"} => exit_status = 1
\* C10, its case: inject_dll returned False and main has exited
C10_Witness == pc = "exited" /\ inj_ret = "False" /\ exit_status = 1

\* the calls that open the target or act on it
RemoteOps == {"OpenProcess", "IsWow64Process", "VirtualAllocEx", "WriteProcessMemory",
              "CreateToolhelp32Snapshot", "ReadProcessMemory", "CreateRemoteThread",
              "WaitForSingleObject", "GetExitCodeThread"}

\* C11: a check that finds the payload file missing is the last call of the
\* attempt and no call that opens the target or acts on it has come before
\* it; the attempt has failed: inject_dll returned False or main exits with
\* status 1 without entering it.
C11_MissingPayloadStopsFirst ==
  \A k \in 1..Len(ops) :
    ops[k] = Call("os.path.exists", "fail") =>
      /\ k = Len(ops)
      /\ \A j \in 1..k : ops[j].op \notin RemoteOps
      /\ inj_ret = "False" \/ (inj_ret = "pending" /\ pc = "exited")
      /\ pc = "exited" => exit_status = 1
\* C11, its case: the file was there when main looked and gone when
\* inject_dll looked; inject_dll returned False and main has exited
C11_Witness ==
  /\ pc = "exited" /\ inj_ret = "False"
  /\ Len(ops) = 3
  /\ ops[1] = Call("os.path.exists", "ok")
  /\ ops[3] = Call("os.path.exists", "fail")

\* the target is narrower than the caller: a 32-bit process under a 64-bit
\* interpreter
Narrower == inj.self_64bit /\ inj.target_32bit
RemoteBranchRan == Has("CreateToolhelp32Snapshot") \/ Has("ReadProcessMemory") \/ fre_ret # Pending
LocalBranchRan == Has("GetModuleHandleW") \/ Has("GetProcAddress")

\* C12: the two resolution branches never both run and one has run before
\* the thread is created; when the target is not narrower than the caller
\* find_remote_module_base and find_remote_export are not invoked; when it
\* is narrower the local lookup is not used and the address the thread is
\* created at is the one find_remote_export returned.
C12_OneResolutionBranch ==
  /\ ~(RemoteBranchRan /\ LocalBranchRan)
  /\ Has("CreateRemoteThread") => (RemoteBranchRan \/ LocalBranchRan)
  /\ ~Narrower => ~RemoteBranchRan
  /\ Narrower => ~LocalBranchRan
  /\ (Narrower /\ Has("CreateRemoteThread")) =>
        /\ fre_ret.kind = "addr"
        /\ inj.load_library_addr = Wide(fre_ret.hi, fre_ret.val)
        /\ inj.thread_start = inj.load_library_addr
\* C12, its case: a narrower target, the thread created at the address
\* find_remote_export returned
C12_Witness ==
  /\ Narrower
  /\ Has("CreateRemoteThread")
  /\ fre_ret.kind = "addr"
  /\ ~LocalBranchRan

\* C13: CreateRemoteThread is never issued with an entry address above
\* 0xFFFFFFFF when the target is 32-bit: with such an address resolved,
\* inject_dll has returned False and no thread was created.
C13_NoWideEntryInNarrowTarget ==
  /\ (Has("CreateRemoteThread") /\ inj.target_32bit) =>
        (inj.thread_start.hi >= 0 /\ inj.thread_start.hi < 2)
  /\ (inj.target_32bit /\ ExceedsDword(inj.load_library_addr)) =>
        (inj_ret = "False" /\ ~Has("CreateRemoteThread"))
\* C13, its case: the export was resolved in a module loaded above 4 GiB of
\* a 32-bit target and the guard has ended the attempt
C13_Witness ==
  /\ inj.target_32bit
  /\ fre_ret.kind = "addr"
  /\ ExceedsDword(inj.load_library_addr)
  /\ inj_ret = "False"
  /\ ~Has("CreateRemoteThread")

\* the step of the attempt a call belongs to: 1 open, 2 allocate, 3 write,
\* 4 resolve, 5 create thread, 6 wait; 0 for a call that is none of them
StepOf(op) ==
  CASE op = "OpenProcess" -> 1
    [] op = "VirtualAllocEx" -> 2
    [] op = "WriteProcessMemory" -> 3
    [] op \in {"CreateToolhelp32Snapshot", "ReadProcessMemory", "GetModuleHandleW", "GetProcAddress"} -> 4
    [] op = "CreateRemoteThread" -> 5
    [] op = "WaitForSingleObject" -> 6
    [] OTHER -> 0
\* the calls of the six steps, in the order they were issued
StepCalls == SelectSeq(ops, LAMBDA c : StepOf(c.op) > 0)
\* the steps occur in their order, each but the resolution (several calls)
\* as one call, and a step starts only when every step before it has occurred
StepsInOrder ==
  /\ \A k \in 1..(Len(StepCalls) - 1) :
       LET a == StepOf(StepCalls[k].op)
           b == StepOf(StepCalls[k + 1].op)
       IN (a = 4 /\ b = 4) \/ b = a + 1
  /\ Len(StepCalls) > 0 => StepOf(StepCalls[1].op) = 1

\* C14: the steps open, allocate, write, resolve, create thread, wait occur
\* in this order, each at most once, and a call that failed (an error
\* return, an exception, a transfer of fewer bytes than asked for, a wait
\* that timed out) is the last call of the six steps.
C14_StepsInOrderStopAtFailure ==
  /\ StepsInOrder
  /\ \A k \in 1..(Len(StepCalls) - 1) : StepCalls[k].res = "ok"
\* the same with a failure as the code reads it: a transfer that returned
\* success with a short count passes for a success
C14_StepsInOrderStopAtReportedFailure ==
  /\ StepsInOrder
  /\ \A k \in 1..(Len(StepCalls) - 1) :
       StepCalls[k].res \in {"ok", "short"} \/ StepCalls[k].op = "ReadProcessMemory"

\* both header reads returned success
HeaderReadsOk == Len(reads) >= 2 /\ reads[1].ret /\ reads[2].ret
\* the header window as the second read left it in pe_data
HeaderWindow == ReadBuf(img, fre.module_base, reads[2].addr, PeHeaderSize, reads[2].got)
\* the indices (1-based) at which the name table of im holds name
IndicesOf(im, name) == {i \in 1..Len(im.names) : im.names[i] = name}

\* C15: when the export directory RVA decoded from the header window is
\* zero, the two header reads are the only reads of the call and the call
\* returns None.
C15_ZeroExportRvaStopsAfterHeaders ==
  (HeaderReadsOk /\ ExportRvaOf(HeaderWindow) = 0) =>
     (Len(reads) = 2 /\ fre_ret = None)
\* C15, its case: a valid header with a recognised magic and a zero export
\* directory RVA, both reads complete, the call has returned
C15_Witness ==
  /\ pc = "fre_done" /\ AllReadsOk /\ HeaderReadsOk
  /\ UnpackI(HeaderWindow, 0) = PeSignature
  /\ UnpackH(HeaderWindow, OffMagic) = MagicPe32
  /\ ExportRvaOf(HeaderWindow) = 0
  /\ fre_ret = None

\* C16: when the signature in the header window is not 0x4550 or the magic
\* is neither 0x10B nor 0x20B, the header-window read is the last read of
\* the call and the call returns None.
C16_MalformedHeaderStopsAfterWindow ==
  (HeaderReadsOk /\ (UnpackI(HeaderWindow, 0) # PeSignature
                       \/ UnpackH(HeaderWindow, OffMagic) \notin {MagicPe32, MagicPe32Plus})) =>
     (Len(reads) = 2 /\ fre_ret = None)
\* C16, its case: a wrong signature over a recognised magic and a non-zero
\* export directory RVA, both reads complete, the call has returned
C16_Witness ==
  /\ pc = "fre_done" /\ AllReadsOk /\ HeaderReadsOk
  /\ UnpackI(HeaderWindow, 0) # PeSignature
  /\ UnpackH(HeaderWindow, OffMagic) = MagicPe32
  /\ ExportRvaOf(HeaderWindow) > 0
  /\ fre_ret = None

\* C17: over a well-formed image with all reads complete whose name table
\* holds the name sought at several indices, the call returns the address of
\* the lowest of them, and the name reads are those of the indices up to it:
\* after the six reads of headers, directory and tables, one read per index
\* from the first to the lowest match.
C17_FirstOfDuplicateNames ==
  (pc = "fre_done" /\ WellFormed(img) /\ AllReadsOk
     /\ Cardinality(IndicesOf(img, fre.function_name)) >= 2) =>
     LET i == CHOOSE m \in IndicesOf(img, fre.function_name) :
                \A n \in IndicesOf(img, fre.function_name) : m <= n
     IN /\ fre_ret = Addr(fre.module_base_hi, fre.module_base + FuncRva(img.ords[i]))
        /\ Len(reads) = 6 + i
        /\ \A k \in 1..i : reads[6 + k].addr = fre.module_base + NameRva(k)
\* C17, its case: the name sought twice in the table with two ordinals, the
\* address of the first returned
C17_Witness ==
  /\ pc = "fre_done" /\ WellFormed(img) /\ AllReadsOk
  /\ Len(img.names) >= 2
  /\ img.names[1] = fre.function_name /\ img.names[2] = fre.function_name
  /\ img.ords[1] # img.ords[2]
  /\ fre_ret = Addr(fre.module_base_hi, fre.module_base + FuncRva(img.ords[1]))

\* C18: once the local lookup has run, the address it gave is the address of
\* LoadLibraryA in the caller's own kernel32, all its bits, and the thread is
\* created at that address.
C18_LocalEntryIsFullAddress ==
  Has("GetProcAddress") =>
     /\ inj.load_library_addr = inj.local_entry
     /\ Has("CreateRemoteThread") => inj.thread_start = inj.local_entry

\* the position of the call that created the remote thread (0 when none did)
Created == IF \E k \in 1..Len(ops) : ops[k] = Call("CreateRemoteThread", "ok")
           THEN CHOOSE k \in 1..Len(ops) : ops[k] = Call("CreateRemoteThread", "ok")
           ELSE 0
\* after the thread was created no call allocates, writes or frees in the
\* target
NoRegionCallAfterCreation ==
  Created > 0 =>
    \A j \in (Created + 1)..Len(ops) :
      ops[j].op \notin {"VirtualAllocEx", "WriteProcessMemory", "VirtualFreeEx"}

\* C19: from the creation of the remote thread on, whatever the thread and
\* the caller have done since (the thread run or not, the wait timed out,
\* the handles closed, main exited), no call has allocated, written or freed
\* in the target and the scratch region holds the payload path with its
\* terminator.
C19_ScratchHoldsPayloadPath ==
  Created > 0 => (NoRegionCallAfterCreation /\ scratch = DllBytes)
\* the part of C19 about the time after the creation alone: no step of the
\* caller or of the thread changes the region once the thread exists
C19_ScratchUntouchedAfterCreation ==
  [][Created > 0 => (scratch' = scratch /\ NoRegionCallAfterCreation')]_vars

\* the calls that take the process handle, and those that take the thread handle
OnProcessHandle == {"IsWow64Process", "VirtualAllocEx", "WriteProcessMemory",
                    "ReadProcessMemory", "CreateRemoteThread", "CloseHandle(h_process)"}
OnThreadHandle == {"WaitForSingleObject", "GetExitCodeThread", "CloseHandle(h_thread)"}

\* C20: CloseHandle is called at most once on the process handle and at most
\* once on the thread handle, and after the CloseHandle of a handle no call
\* takes that handle.
C20_NoUseAfterClose ==
  \A k \in 1..Len(ops) :
    /\ ops[k].op = "CloseHandle(h_process)" =>
         \A j \in (k + 1)..Len(ops) : ops[j].op \notin OnProcessHandle
    /\ ops[k].op = "CloseHandle(h_thread)" =>
         \A j \in (k + 1)..Len(ops) : ops[j].op \notin OnThreadHandle
\* C20, its case: the thread handle closed after a wait that timed out, the
\* process handle closed by the finally clause, inject_dll has returned
C20_Witness ==
  /\ inj_ret = "True"
  /\ handles = [process |-> "closed", thread |-> "closed"]
  /\ Has("CloseHandle(h_thread)") /\ Has("CloseHandle(h_process)")
  /\ inj.wait_result # WAIT_OBJECT_0

\* the outcome the k-th read of the first call had, and of the current call
\* when it is the second: ops holds the reads of both, in order
FirstOutcome(k) == ops[k].res
SecondOutcome(k) == ops[Len(first_call.reads) + k].res
\* the number of reads both calls have issued
Common == IF Len(reads) < Len(first_call.reads) THEN Len(reads) ELSE Len(first_call.reads)
\* so far every read of the second call had the outcome of the read at the
\* same position of the first
SameOutcomes == \A k \in 1..Common : SecondOutcome(k) = FirstOutcome(k)

====
